---- MODULE Spec2Model ----
(***************************************************************************)
(* Model of the operational-transformation core of optra:                 *)
(*   src/src/operations.rs  InsertOperation, DeleteOperation, the overlap *)
(*                          and crossing classifiers                      *)
(*   src/src/utils.rs       SequenceTransformer, SequenceSwapper          *)
(*                                                                         *)
(* Number representation.  `position` and `length` are u64 and every      *)
(* offset is i64.  The transform core reads a position only through       *)
(* `as Offset` and writes it only through `as Position`; the two casts    *)
(* keep the 64-bit pattern.  The model stores the i64 reading of the      *)
(* pattern as a mathematical integer, so a negative `position` or         *)
(* `length` below stands for the wrapped u64 value 2^64 + n.              *)
(***************************************************************************)
EXTENDS Integers, Sequences, FiniteSets, TLC

VARIABLES
    sequencer,        \* "SequenceTransformer" | "SequenceSwapper" | "None"
    incoming_offset,  \* utils.rs:5,11
    existing_offset,  \* utils.rs:6,12
    total_overlap,    \* utils.rs:13 (0 for a swapper, which has no such field)
    incoming,         \* the incoming operation handed to the next call
    existing,         \* the existing operation handed to the next call
    overlap,          \* OverlapResult / CrossResult of the last call
    advance,          \* Advance returned by the last call
    pre,              \* operands and accumulators as they were when the last call began
    panicked,         \* the unimplemented!() path the last call ran into, or "none"
    swapped,          \* classification with the operands exchanged (classifier runs)
    history,          \* the ordered history a pass replays the incoming operation against
    cursor,           \* index in history of the existing operation of the next call
    emitted,          \* the fragments a pass has produced, in order
    original,         \* the incoming operation as the pass received it
    pc

passVars == <<history, cursor, emitted, original>>

vars == <<sequencer, incoming_offset, existing_offset, total_overlap, incoming,
          existing, overlap, advance, pre, panicked, swapped, passVars, pc>>

\* ------------------------------------------------------------------ bounds
MaxPos == 2
MaxLen == 3
MaxOffset == 1
DocLen == 6
MaxHistory == 3

Positions == 0..MaxPos
Lengths == 0..MaxLen
Offsets == (-MaxOffset)..MaxOffset
Timestamps == {1, 2}
HistoryTimes == {0}
SiteIds == {1, 2}
Values == {<<7>>, <<7, 8>>}

None == [tag |-> "None"]

NoPass ==
    /\ history = <<>>
    /\ cursor = 0
    /\ emitted = <<>>
    /\ original = None

\* ------------------------------------------------------ operations.rs: model
InsertOperation(position, value, timestamp, site_id) ==
    [kind |-> "Insert", timestamp |-> timestamp, position |-> position,
     value |-> value, site_id |-> site_id]

DeleteOperation(position, length, timestamp) ==
    [kind |-> "Delete", timestamp |-> timestamp, position |-> position,
     length |-> length]

\* Incoming operations carry any timestamp of Timestamps.  The operations of the
\* history carry a timestamp of HistoryTimes: no classifier and no transform step reads the
\* timestamp of an existing operation.
InsertsAt(times) == {InsertOperation(p, v, t, s) : p \in Positions, v \in Values,
                                                  t \in times, s \in SiteIds}
DeletesAt(times) == {DeleteOperation(p, l, t) : p \in Positions, l \in Lengths,
                                               t \in times}
Inserts == InsertsAt(Timestamps)
Deletes == DeletesAt(Timestamps)
Operations == Inserts \cup Deletes
ExistingDeletes == DeletesAt(HistoryTimes)
ExistingOperations == InsertsAt(HistoryTimes) \cup ExistingDeletes

get_increment(op) ==
    IF op.kind = "Insert" THEN Len(op.value) ELSE -(op.length)

update_position_by(op, delta) == [op EXCEPT !.position = @ + delta]

\* DeleteOperation only; InsertOperation::update_size_by is unimplemented!()
update_size_by(op, delta) == [op EXCEPT !.length = @ + delta]

set_length_to_zero(op) ==
    IF op.kind = "Insert" THEN op ELSE [op EXCEPT !.length = 0]

\* faulty variant: the tail keeps the whole length
split_TailKeepsLength(op, split_pos) ==
    <<[op EXCEPT !.length = split_pos],
      DeleteOperation(op.position, op.length, op.timestamp)>>

\* DeleteOperation::split: <<head left in place, tail returned>>
split(op, split_pos) ==
    <<[op EXCEPT !.length = split_pos],
      DeleteOperation(op.position, op.length - split_pos, op.timestamp)>>

\* ------------------------------------------------------ overlap classifier
Precedes == [tag |-> "Precedes"]
Follows == [tag |-> "Follows"]
Encloses(k) == [tag |-> "Encloses", k |-> k]
EnclosedBy(k) == [tag |-> "EnclosedBy", k |-> k]
OverlapFront(k) == [tag |-> "OverlapFront", k |-> k]
OverlapBack(k) == [tag |-> "OverlapBack", k |-> k]
Crosses(k) == [tag |-> "Crosses", k |-> k]

\* faulty variant: the tie at equal adjusted positions goes to the larger site_id
compare_with_offsets_SiteDescending(self, other, my_offset, other_offset) ==
    LET my_pos == self.position - my_offset
        other_pos == other.position - other_offset
    IN  my_pos < other_pos \/ (my_pos = other_pos /\ self.site_id > other.site_id)

compare_with_offsets(self, other, my_offset, other_offset) ==
    LET my_pos == self.position - my_offset
        other_pos == other.position - other_offset
    IN  my_pos < other_pos \/ (my_pos = other_pos /\ self.site_id < other.site_id)

Insert_check_overlap_with_insert(self, other, my_offset, other_offset) ==
    IF compare_with_offsets(other, self, other_offset, my_offset)
    THEN Precedes
    ELSE Follows

\* faulty variant: an insert at the delete's back counted as inside it
Insert_check_overlap_with_delete_BackInside(self, other, my_offset, other_offset) ==
    LET my_pos == self.position - my_offset
        other_front == other.position - other_offset
        other_back == other_front + other.length
    IN  IF my_pos <= other_front THEN Follows
        ELSE IF my_pos <= other_back THEN Encloses(my_pos - other_front)
        ELSE Precedes

Insert_check_overlap_with_delete(self, other, my_offset, other_offset) ==
    LET my_pos == self.position - my_offset
        other_front == other.position - other_offset
        other_back == other_front + other.length
    IN  IF my_pos <= other_front THEN Follows
        ELSE IF my_pos < other_back THEN Encloses(my_pos - other_front)
        ELSE Precedes

\* faulty variant: the inside case answers with the payload tag of the mirrored rule
Delete_check_overlap_with_insert_Mirrored(self, other, my_offset, other_offset) ==
    LET my_front == self.position - my_offset
        my_back == my_front + self.length
        other_pos == other.position - other_offset
    IN  IF other_pos <= my_front THEN Precedes
        ELSE IF other_pos < my_back THEN Encloses(other_pos - my_front)
        ELSE Follows

\* faulty variant: an insert at the delete's front counted as inside it
Delete_check_overlap_with_insert_FrontInside(self, other, my_offset, other_offset) ==
    LET my_front == self.position - my_offset
        my_back == my_front + self.length
        other_pos == other.position - other_offset
    IN  IF other_pos < my_front THEN Precedes
        ELSE IF other_pos < my_back THEN EnclosedBy(other_pos - my_front)
        ELSE Follows

Delete_check_overlap_with_insert(self, other, my_offset, other_offset) ==
    LET my_front == self.position - my_offset
        my_back == my_front + self.length
        other_pos == other.position - other_offset
    IN  IF other_pos <= my_front THEN Precedes
        ELSE IF other_pos < my_back THEN EnclosedBy(other_pos - my_front)
        ELSE Follows

\* faulty variant: the far-boundary test of the first branch made non-strict
Delete_check_overlap_with_delete_BackLeq(self, other, my_offset, other_offset) ==
    LET my_front == self.position - my_offset
        my_back == my_front + self.length
        other_front == other.position - other_offset
        other_back == other_front + other.length
    IN  IF other_front < my_front
        THEN IF my_front < other_back
             THEN IF my_back <= other_back
                  THEN Encloses(my_front - other_front)
                  ELSE OverlapFront(other_back - my_front)
             ELSE Precedes
        ELSE IF other_front < my_back
             THEN IF other_back < my_back
                  THEN IF other_front = my_front
                       THEN OverlapFront(other_back - my_front)
                       ELSE EnclosedBy(other_front - my_front)
                  ELSE OverlapBack(my_back - other_front)
             ELSE Follows

\* faulty variant: the equal-front test of the second branch dropped
Delete_check_overlap_with_delete_NoTie(self, other, my_offset, other_offset) ==
    LET my_front == self.position - my_offset
        my_back == my_front + self.length
        other_front == other.position - other_offset
        other_back == other_front + other.length
    IN  IF other_front < my_front
        THEN IF my_front < other_back
             THEN IF my_back < other_back
                  THEN Encloses(my_front - other_front)
                  ELSE OverlapFront(other_back - my_front)
             ELSE Precedes
        ELSE IF other_front < my_back
             THEN IF other_back < my_back
                  THEN EnclosedBy(other_front - my_front)
                  ELSE OverlapBack(my_back - other_front)
             ELSE Follows

\* faulty variant: OverlapBack reports the whole length of self
Delete_check_overlap_with_delete_BackWhole(self, other, my_offset, other_offset) ==
    LET my_front == self.position - my_offset
        my_back == my_front + self.length
        other_front == other.position - other_offset
        other_back == other_front + other.length
    IN  IF other_front < my_front
        THEN IF my_front < other_back
             THEN IF my_back < other_back
                  THEN Encloses(my_front - other_front)
                  ELSE OverlapFront(other_back - my_front)
             ELSE Precedes
        ELSE IF other_front < my_back
             THEN IF other_back < my_back
                  THEN IF other_front = my_front
                       THEN OverlapFront(other_back - my_front)
                       ELSE EnclosedBy(other_front - my_front)
                  ELSE OverlapBack(my_back - my_front)
             ELSE Follows

Delete_check_overlap_with_delete(self, other, my_offset, other_offset) ==
    LET my_front == self.position - my_offset
        my_back == my_front + self.length
        other_front == other.position - other_offset
        other_back == other_front + other.length
    IN  IF other_front < my_front
        THEN IF my_front < other_back
             THEN IF my_back < other_back
                  THEN Encloses(my_front - other_front)
                  ELSE OverlapFront(other_back - my_front)
             ELSE Precedes
        ELSE IF other_front < my_back
             THEN IF other_back < my_back
                  THEN IF other_front = my_front
                       THEN OverlapFront(other_back - my_front)
                       ELSE EnclosedBy(other_front - my_front)
                  ELSE OverlapBack(my_back - other_front)
             ELSE Follows

check_overlap_with_insert(self, other, my_offset, other_offset) ==
    IF self.kind = "Insert"
    THEN Insert_check_overlap_with_insert(self, other, my_offset, other_offset)
    ELSE Delete_check_overlap_with_insert(self, other, my_offset, other_offset)

check_overlap_with_delete(self, other, my_offset, other_offset) ==
    IF self.kind = "Insert"
    THEN Insert_check_overlap_with_delete(self, other, my_offset, other_offset)
    ELSE Delete_check_overlap_with_delete(self, other, my_offset, other_offset)

\* double dispatch: the callee is `other`, with the offsets exchanged
check_overlap(self, other, my_offset, other_offset) ==
    IF self.kind = "Insert"
    THEN check_overlap_with_insert(other, self, other_offset, my_offset)
    ELSE check_overlap_with_delete(other, self, other_offset, my_offset)

\* ----------------------------------------------------- crossing classifier
Unimplemented == [tag |-> "Unimplemented"]

Insert_crosses(self, other, my_offset, other_offset) ==
    IF other.position - other_offset <= self.position - my_offset
    THEN Follows
    ELSE Precedes

\* faulty variant: an operation starting at the back of self still crosses it
Delete_crosses_BackInside(self, other, my_offset, other_offset) ==
    LET my_front == self.position - my_offset
        my_back == my_front + self.length
        other_front == other.position - other_offset
    IN  IF other_front <= my_front THEN Follows
        ELSE IF other_front <= my_back THEN Crosses(other_front - my_front)
        ELSE Precedes

Delete_crosses(self, other, my_offset, other_offset) ==
    LET my_front == self.position - my_offset
        my_back == my_front + self.length
        other_front == other.position - other_offset
    IN  IF other_front <= my_front THEN Follows
        ELSE IF other_front < my_back THEN Crosses(other_front - my_front)
        ELSE Precedes

crosses(self, other, my_offset, other_offset) ==
    IF self.kind = "Insert"
    THEN Insert_crosses(self, other, my_offset, other_offset)
    ELSE Delete_crosses(self, other, my_offset, other_offset)

\* InsertOperation::crossed_by is unimplemented!(); DeleteOperation::crossed_by
\* dispatches to other.crosses with the offsets exchanged
crossed_by(self, other, my_offset, other_offset) ==
    IF self.kind = "Insert"
    THEN Unimplemented
    ELSE crosses(other, self, other_offset, my_offset)

\* ------------------------------------------------- utils.rs: SequenceTransformer
\* `self` is the record of the accumulators; a call returns the accumulators and
\* the incoming operation as the call leaves them, the Advance it returns, and
\* the unimplemented!() path it panicked in ("none" when it returned).
SequenceTransformer_new ==
    [incoming_offset |-> 0, existing_offset |-> 0, total_overlap |-> 0]

Returned(self, incoming_operation, adv) ==
    [self |-> self, incoming |-> incoming_operation, advance |-> adv,
     panicked |-> "none"]

Panicked(self, incoming_operation, where) ==
    [self |-> self, incoming |-> incoming_operation, advance |-> None,
     panicked |-> where]

Incoming == [tag |-> "Incoming"]
Existing == [tag |-> "Existing"]
Neither(op) == [tag |-> "Neither", op |-> op]

\* faulty variant: the shift leaves out total_overlap
update_with_Precedes_NoOverlap(self, incoming_operation, exisiting_operation) ==
    LET s1 == [self EXCEPT !.incoming_offset = @ + get_increment(incoming_operation)]
        op1 == update_position_by(incoming_operation, s1.existing_offset)
    IN  Returned(s1, op1, Incoming)

update_with_Precedes(self, incoming_operation, exisiting_operation) ==
    LET s1 == [self EXCEPT !.incoming_offset = @ + get_increment(incoming_operation)]
        op1 == update_position_by(incoming_operation,
                                  s1.existing_offset + s1.total_overlap)
    IN  Returned(s1, op1, Incoming)

\* faulty variant: existing_offset takes the incoming operation's increment
update_with_Follows_IncomingIncrement(self, incoming_operation, exisiting_operation) ==
    LET s1 == [self EXCEPT !.existing_offset = @ + get_increment(incoming_operation)]
    IN  Returned(s1, incoming_operation, Existing)

update_with_Follows(self, incoming_operation, exisiting_operation) ==
    LET s1 == [self EXCEPT !.existing_offset = @ + get_increment(exisiting_operation)]
    IN  Returned(s1, incoming_operation, Existing)

\* faulty variant: the length is zeroed before total_overlap reads the increment
update_with_EnclosedBy_ZeroFirst(self, front_difference, incoming_operation, exisiting_operation) ==
    LET s1 == [self EXCEPT !.incoming_offset = @ + get_increment(incoming_operation)]
        op1 == update_position_by(incoming_operation,
                   s1.existing_offset + s1.total_overlap - front_difference)
        op2 == set_length_to_zero(op1)
        s2 == [s1 EXCEPT !.total_overlap = @ - get_increment(op2)]
    IN  Returned(s2, op2, Incoming)

\* faulty variant: the shift leaves out the distance into the existing Delete
update_with_EnclosedBy_FrontKept(self, front_difference, incoming_operation, exisiting_operation) ==
    LET s1 == [self EXCEPT !.incoming_offset = @ + get_increment(incoming_operation)]
        op1 == update_position_by(incoming_operation,
                   s1.existing_offset + s1.total_overlap)
        s2 == [s1 EXCEPT !.total_overlap = @ - get_increment(op1)]
        op2 == set_length_to_zero(op1)
    IN  Returned(s2, op2, Incoming)

update_with_EnclosedBy(self, front_difference, incoming_operation, exisiting_operation) ==
    LET s1 == [self EXCEPT !.incoming_offset = @ + get_increment(incoming_operation)]
        op1 == update_position_by(incoming_operation,
                   s1.existing_offset + s1.total_overlap - front_difference)
        s2 == [s1 EXCEPT !.total_overlap = @ - get_increment(op1)]
        op2 == set_length_to_zero(op1)
    IN  Returned(s2, op2, Incoming)

\* faulty variant: incoming_offset takes the increment before the split
update_with_Encloses_IncrementFirst(self, front_difference, incoming_operation, exisiting_operation) ==
    IF incoming_operation.kind = "Insert"
    THEN Panicked(self, incoming_operation, "InsertOperation::split")
    ELSE LET s1 == [self EXCEPT !.incoming_offset = @ + get_increment(incoming_operation)]
             parts == split(incoming_operation, front_difference)
             head == parts[1]
             new_op == parts[2]
             op1 == update_position_by(head, s1.existing_offset + s1.total_overlap)
         IN  Returned(s1, op1, Neither(new_op))

\* faulty variant: incoming_offset is not told about the head
update_with_Encloses_OffsetKept(self, front_difference, incoming_operation, exisiting_operation) ==
    IF incoming_operation.kind = "Insert"
    THEN Panicked(self, incoming_operation, "InsertOperation::split")
    ELSE LET parts == split(incoming_operation, front_difference)
             head == parts[1]
             new_op == parts[2]
             op1 == update_position_by(head, self.existing_offset + self.total_overlap)
         IN  Returned(self, op1, Neither(new_op))

update_with_Encloses(self, front_difference, incoming_operation, exisiting_operation) ==
    IF incoming_operation.kind = "Insert"
    THEN Panicked(self, incoming_operation, "InsertOperation::split")
    ELSE LET parts == split(incoming_operation, front_difference)
             head == parts[1]
             new_op == parts[2]
             s1 == [self EXCEPT !.incoming_offset = @ + get_increment(head)]
             op1 == update_position_by(head, s1.existing_offset + s1.total_overlap)
         IN  Returned(s1, op1, Neither(new_op))

\* faulty variant: the commented-out reposition of utils.rs:70 restored
update_with_OverlapBack_Reposition(self, amount, incoming_operation, exisiting_operation) ==
    LET s1 == [self EXCEPT !.existing_offset = @ + get_increment(exisiting_operation)]
        s2 == [s1 EXCEPT !.total_overlap = @ + amount]
        s3 == [s2 EXCEPT !.incoming_offset = @ - amount]
    IN  IF incoming_operation.kind = "Insert"
        THEN Panicked(s3, incoming_operation, "InsertOperation::update_size_by")
        ELSE Returned(s3, update_position_by(update_size_by(incoming_operation, -amount),
                                             amount), Existing)

\* faulty variant: incoming_offset is not lowered by the amount
update_with_OverlapBack_OffsetKept(self, amount, incoming_operation, exisiting_operation) ==
    LET s1 == [self EXCEPT !.existing_offset = @ + get_increment(exisiting_operation)]
        s2 == [s1 EXCEPT !.total_overlap = @ + amount]
    IN  IF incoming_operation.kind = "Insert"
        THEN Panicked(s2, incoming_operation, "InsertOperation::update_size_by")
        ELSE Returned(s2, update_size_by(incoming_operation, -amount), Existing)

update_with_OverlapBack(self, amount, incoming_operation, exisiting_operation) ==
    LET s1 == [self EXCEPT !.existing_offset = @ + get_increment(exisiting_operation)]
        s2 == [s1 EXCEPT !.total_overlap = @ + amount]
        s3 == [s2 EXCEPT !.incoming_offset = @ - amount]
    IN  IF incoming_operation.kind = "Insert"
        THEN Panicked(s3, incoming_operation, "InsertOperation::update_size_by")
        ELSE Returned(s3, update_size_by(incoming_operation, -amount), Existing)

\* faulty variant: total_overlap grows before the reposition reads it
update_with_OverlapFront_OverlapFirst(self, amount, incoming_operation, exisiting_operation) ==
    LET s1 == [self EXCEPT !.incoming_offset = @ + get_increment(incoming_operation)]
    IN  IF incoming_operation.kind = "Insert"
        THEN Panicked(s1, incoming_operation, "InsertOperation::update_size_by")
        ELSE LET op1 == update_size_by(incoming_operation, -amount)
                 s2 == [s1 EXCEPT !.total_overlap = @ + amount]
                 op2 == update_position_by(op1, s2.existing_offset + s2.total_overlap)
             IN  Returned(s2, op2, Incoming)

update_with_OverlapFront(self, amount, incoming_operation, exisiting_operation) ==
    LET s1 == [self EXCEPT !.incoming_offset = @ + get_increment(incoming_operation)]
    IN  IF incoming_operation.kind = "Insert"
        THEN Panicked(s1, incoming_operation, "InsertOperation::update_size_by")
        ELSE LET op1 == update_size_by(incoming_operation, -amount)
                 op2 == update_position_by(op1, s1.existing_offset + s1.total_overlap)
                 s2 == [s1 EXCEPT !.total_overlap = @ + amount]
             IN  Returned(s2, op2, Incoming)

update_with(self, overlap_result, incoming_operation, exisiting_operation) ==
    CASE overlap_result.tag = "Precedes" ->
            update_with_Precedes(self, incoming_operation, exisiting_operation)
      [] overlap_result.tag = "Follows" ->
            update_with_Follows(self, incoming_operation, exisiting_operation)
      [] overlap_result.tag = "EnclosedBy" ->
            update_with_EnclosedBy(self, overlap_result.k, incoming_operation,
                                   exisiting_operation)
      [] overlap_result.tag = "Encloses" ->
            update_with_Encloses(self, overlap_result.k, incoming_operation,
                                 exisiting_operation)
      [] overlap_result.tag = "OverlapBack" ->
            update_with_OverlapBack(self, overlap_result.k, incoming_operation,
                                    exisiting_operation)
      [] overlap_result.tag = "OverlapFront" ->
            update_with_OverlapFront(self, overlap_result.k, incoming_operation,
                                     exisiting_operation)

transform_overlap(self, incoming_operation, exisiting_operation) ==
    check_overlap(incoming_operation, exisiting_operation,
                  self.incoming_offset, self.existing_offset)

transform_operations(self, incoming_operation, exisiting_operation) ==
    update_with(self,
                transform_overlap(self, incoming_operation, exisiting_operation),
                incoming_operation, exisiting_operation)

\* faulty variant: the shift forgets the overlap already taken out of the operation
transform_single_NoOverlap(self, operation) ==
    update_position_by(operation, self.existing_offset)

\* faulty variant: the shift is applied backwards
transform_single_Backwards(self, operation) ==
    update_position_by(operation, -(self.existing_offset + self.total_overlap))

transform_single(self, operation) ==
    update_position_by(operation, self.existing_offset + self.total_overlap)

\* ---------------------------------------------------- utils.rs: SequenceSwapper
\* a swapper has no total_overlap field; the record keeps it at 0
SequenceSwapper_new ==
    [incoming_offset |-> 0, existing_offset |-> 0, total_overlap |-> 0]

SwapReturned(self, incoming_operation, exisiting_operation, adv) ==
    [self |-> self, incoming |-> incoming_operation,
     existing |-> exisiting_operation, advance |-> adv, panicked |-> "none"]

swap_cross(self, incoming_operation, exisiting_operation) ==
    crossed_by(exisiting_operation, incoming_operation, self.existing_offset,
               self.incoming_offset + self.existing_offset)

\* faulty variant: the incoming operation is shifted forward by existing_offset
swap_Precedes_Forward(self, incoming_operation, exisiting_operation) ==
    LET s1 == [self EXCEPT !.incoming_offset = @ + get_increment(incoming_operation)]
        op1 == update_position_by(incoming_operation, s1.existing_offset)
    IN  SwapReturned(s1, op1, exisiting_operation, Incoming)

swap_Precedes(self, incoming_operation, exisiting_operation) ==
    LET s1 == [self EXCEPT !.incoming_offset = @ + get_increment(incoming_operation)]
        op1 == update_position_by(incoming_operation, -(s1.existing_offset))
    IN  SwapReturned(s1, op1, exisiting_operation, Incoming)

\* faulty variant: the existing Delete is shifted by the updated existing_offset
swap_Follows_ExistingShift(self, incoming_operation, exisiting_operation) ==
    LET s1 == [self EXCEPT !.existing_offset = @ + get_increment(exisiting_operation)]
        ex1 == update_position_by(exisiting_operation, s1.existing_offset)
    IN  SwapReturned(s1, incoming_operation, ex1, Existing)

swap_Follows(self, incoming_operation, exisiting_operation) ==
    LET s1 == [self EXCEPT !.existing_offset = @ + get_increment(exisiting_operation)]
        ex1 == update_position_by(exisiting_operation, s1.incoming_offset)
    IN  SwapReturned(s1, incoming_operation, ex1, Existing)

\* faulty variant: incoming_offset is not told about the head
swap_Crosses_OffsetKept(self, front_difference, incoming_operation, exisiting_operation) ==
    IF incoming_operation.kind = "Insert"
    THEN [self |-> self, incoming |-> incoming_operation,
          existing |-> exisiting_operation, advance |-> None,
          panicked |-> "InsertOperation::split"]
    ELSE LET parts == split(incoming_operation, front_difference)
             head == parts[1]
             new_op == parts[2]
             op1 == update_position_by(head, -(self.existing_offset))
         IN  SwapReturned(self, op1, exisiting_operation, Neither(new_op))

\* faulty variant: incoming_offset takes the increment before the split
swap_Crosses_IncrementFirst(self, front_difference, incoming_operation, exisiting_operation) ==
    IF incoming_operation.kind = "Insert"
    THEN [self |-> self, incoming |-> incoming_operation,
          existing |-> exisiting_operation, advance |-> None,
          panicked |-> "InsertOperation::split"]
    ELSE LET s1 == [self EXCEPT !.incoming_offset = @ + get_increment(incoming_operation)]
             parts == split(incoming_operation, front_difference)
             head == parts[1]
             new_op == parts[2]
             op1 == update_position_by(head, -(s1.existing_offset))
         IN  SwapReturned(s1, op1, exisiting_operation, Neither(new_op))

swap_Crosses(self, front_difference, incoming_operation, exisiting_operation) ==
    IF incoming_operation.kind = "Insert"
    THEN [self |-> self, incoming |-> incoming_operation,
          existing |-> exisiting_operation, advance |-> None,
          panicked |-> "InsertOperation::split"]
    ELSE LET parts == split(incoming_operation, front_difference)
             head == parts[1]
             new_op == parts[2]
             s1 == [self EXCEPT !.incoming_offset = @ + get_increment(head)]
             op1 == update_position_by(head, -(s1.existing_offset))
         IN  SwapReturned(s1, op1, exisiting_operation, Neither(new_op))

swap_operations(self, incoming_operation, exisiting_operation) ==
    LET overlap_result == swap_cross(self, incoming_operation, exisiting_operation)
    IN  CASE overlap_result.tag = "Precedes" ->
                swap_Precedes(self, incoming_operation, exisiting_operation)
          [] overlap_result.tag = "Follows" ->
                swap_Follows(self, incoming_operation, exisiting_operation)
          [] overlap_result.tag = "Crosses" ->
                swap_Crosses(self, overlap_result.k, incoming_operation,
                             exisiting_operation)
          [] overlap_result.tag = "Unimplemented" ->
                [self |-> self, incoming |-> incoming_operation,
                 existing |-> exisiting_operation, advance |-> None,
                 panicked |-> "InsertOperation::crossed_by"]

swap_single(self, operation) ==
    update_position_by(operation, -(self.existing_offset))

\* faulty variant: the offset goes into the Delete's size
swap_existing_Resize(self, operation) ==
    update_size_by(operation, self.incoming_offset)

swap_existing(self, operation) ==
    update_position_by(operation, self.incoming_offset)

\* ------------------------------------------------ classifier runs (pure)
InitOverlap ==
    /\ sequencer = "None"
    /\ incoming \in Operations
    /\ existing \in ExistingOperations
    /\ incoming_offset \in Offsets
    /\ existing_offset \in Offsets
    /\ total_overlap = 0
    /\ overlap = None
    /\ swapped = None
    /\ advance = None
    /\ pre = None
    /\ panicked = "none"
    /\ NoPass
    /\ pc = "classify"

Classify ==
    /\ pc = "classify"
    /\ overlap' = check_overlap(incoming, existing, incoming_offset, existing_offset)
    /\ swapped' = check_overlap(existing, incoming, existing_offset, incoming_offset)
    /\ pc' = "classified"
    /\ UNCHANGED <<sequencer, incoming_offset, existing_offset, total_overlap,
                   incoming, existing, advance, pre, panicked, passVars>>

NextOverlap == Classify

SpecOverlap == InitOverlap /\ [][NextOverlap]_vars

\* ------------------------------------------- sequences of calls on one object
\* One SequenceTransformer or SequenceSwapper is created and then called again
\* and again.  Between two calls the caller replaces the operand the last
\* Advance told it to move past: the incoming operation after Incoming, the
\* existing one after Existing, and after Neither(tail) it hands the tail back
\* as the incoming operation.  A sequence is continued only while the
\* accumulators are within the Offsets window.
Self ==
    [incoming_offset |-> incoming_offset, existing_offset |-> existing_offset,
     total_overlap |-> total_overlap]

Snapshot ==
    [incoming |-> incoming, existing |-> existing,
     incoming_offset |-> incoming_offset, existing_offset |-> existing_offset,
     total_overlap |-> total_overlap]

InWindow ==
    /\ incoming_offset \in Offsets
    /\ existing_offset \in Offsets
    /\ total_overlap \in Offsets

ExistingOperands ==
    IF sequencer = "SequenceSwapper" THEN ExistingDeletes ELSE ExistingOperations

Init ==
    /\ sequencer \in {"SequenceTransformer", "SequenceSwapper"}
    /\ incoming_offset = 0
    /\ existing_offset = 0
    /\ total_overlap = 0
    /\ incoming \in Operations
    /\ existing \in ExistingOperands
    /\ overlap = None
    /\ advance = None
    /\ pre = None
    /\ panicked = "none"
    /\ swapped = None
    /\ NoPass
    /\ pc = "ready"

TransformOperations ==
    /\ sequencer = "SequenceTransformer"
    /\ pc = "ready"
    /\ LET r == transform_operations(Self, incoming, existing)
       IN  /\ overlap' = transform_overlap(Self, incoming, existing)
           /\ incoming_offset' = r.self.incoming_offset
           /\ existing_offset' = r.self.existing_offset
           /\ total_overlap' = r.self.total_overlap
           /\ incoming' = r.incoming
           /\ advance' = r.advance
           /\ panicked' = r.panicked
    /\ pre' = Snapshot
    /\ pc' = "called"
    /\ UNCHANGED <<sequencer, existing, swapped, passVars>>

SwapOperations ==
    /\ sequencer = "SequenceSwapper"
    /\ pc = "ready"
    /\ LET r == swap_operations(Self, incoming, existing)
       IN  /\ overlap' = swap_cross(Self, incoming, existing)
           /\ incoming_offset' = r.self.incoming_offset
           /\ existing_offset' = r.self.existing_offset
           /\ total_overlap' = r.self.total_overlap
           /\ incoming' = r.incoming
           /\ existing' = r.existing
           /\ advance' = r.advance
           /\ panicked' = r.panicked
    /\ pre' = Snapshot
    /\ pc' = "called"
    /\ UNCHANGED <<sequencer, swapped, passVars>>

Resume ==
    /\ pc = "called"
    /\ panicked = "none"
    /\ InWindow
    /\ overlap' = None
    /\ advance' = None
    /\ pre' = None
    /\ pc' = "ready"

NextIncoming ==
    /\ Resume
    /\ advance.tag = "Incoming"
    /\ incoming' \in Operations
    /\ UNCHANGED <<sequencer, incoming_offset, existing_offset, total_overlap,
                   existing, panicked, swapped, passVars>>

NextExisting ==
    /\ Resume
    /\ advance.tag = "Existing"
    /\ existing' \in ExistingOperands
    /\ UNCHANGED <<sequencer, incoming_offset, existing_offset, total_overlap,
                   incoming, panicked, swapped, passVars>>

ResubmitTail ==
    /\ Resume
    /\ advance.tag = "Neither"
    /\ incoming' = advance.op
    /\ UNCHANGED <<sequencer, incoming_offset, existing_offset, total_overlap,
                   existing, panicked, swapped, passVars>>

Next ==
    \/ TransformOperations
    \/ SwapOperations
    \/ NextIncoming
    \/ NextExisting
    \/ ResubmitTail

Spec == Init /\ [][Next]_vars

\* ------------------------------------- one pass of a Delete over a history
\* The base document is the byte sequence 1..DocLen.  The history is a sequence
\* of Deletes in non-decreasing position order, each position expressed in
\* the document the preceding history operations leave and each Delete inside
\* that document.  The incoming Delete is expressed against the base document.
\* The pass follows the Advance protocol of the transformer's caller: Existing
\* moves to the next existing operation, Neither(tail) emits the head and goes
\* on with the tail against the same existing operation, Incoming emits and
\* ends the pass, and an exhausted history ends it through transform_single.
BaseDocument == [i \in 1..DocLen |-> i]

\* a Delete applied to a document: the bytes at [position, position + length) go
Applicable(doc, op) ==
    /\ op.position >= 0
    /\ op.length >= 0
    /\ op.position + op.length <= Len(doc)

ApplyDelete(doc, op) ==
    SubSeq(doc, 1, op.position) \o SubSeq(doc, op.position + op.length + 1, Len(doc))

RECURSIVE ApplyAll(_, _)
ApplyAll(doc, ops) ==
    IF ops = <<>> THEN doc ELSE ApplyAll(ApplyDelete(doc, Head(ops)), Tail(ops))

RECURSIVE AllApplicable(_, _)
AllApplicable(doc, ops) ==
    \/ ops = <<>>
    \/ /\ Applicable(doc, Head(ops))
       /\ AllApplicable(ApplyDelete(doc, Head(ops)), Tail(ops))

PassDeletes(times) ==
    {DeleteOperation(p, l, t) : p \in 0..(DocLen - 1), l \in 1..DocLen, t \in times}

\* the histories of exactly n Deletes
RECURSIVE HistoriesOf(_)
HistoriesOf(n) ==
    IF n = 0
    THEN {<<>>}
    ELSE {Append(h, d) : <<h, d>> \in
            {x \in HistoriesOf(n - 1) \X PassDeletes(HistoryTimes) :
                /\ x[1] # <<>> => x[1][Len(x[1])].position <= x[2].position
                /\ Applicable(ApplyAll(BaseDocument, x[1]), x[2])}}

Histories == UNION {HistoriesOf(n) : n \in 0..MaxHistory}

InitPass ==
    /\ sequencer = "SequenceTransformer"
    /\ incoming_offset = SequenceTransformer_new.incoming_offset
    /\ existing_offset = SequenceTransformer_new.existing_offset
    /\ total_overlap = SequenceTransformer_new.total_overlap
    /\ history \in Histories
    /\ original \in {d \in PassDeletes(Timestamps) : Applicable(BaseDocument, d)}
    /\ incoming = original
    /\ existing = None
    /\ cursor = 1
    /\ emitted = <<>>
    /\ overlap = None
    /\ advance = None
    /\ pre = None
    /\ panicked = "none"
    /\ swapped = None
    /\ pc = "pass"

\* the call of transform_operations on the current pair
PassResult == transform_operations(Self, incoming, history[cursor])

\* what every such call leaves behind, whatever it returns
PassCalled ==
    /\ pc = "pass"
    /\ cursor <= Len(history)
    /\ PassResult.panicked = "none"
    /\ overlap' = transform_overlap(Self, incoming, history[cursor])
    /\ incoming_offset' = PassResult.self.incoming_offset
    /\ existing_offset' = PassResult.self.existing_offset
    /\ total_overlap' = PassResult.self.total_overlap
    /\ advance' = PassResult.advance
    /\ existing' = history[cursor]
    /\ pre' = [Snapshot EXCEPT !.existing = history[cursor]]
    /\ UNCHANGED <<sequencer, panicked, swapped, history, original>>

PassExisting ==
    /\ PassCalled
    /\ PassResult.advance.tag = "Existing"
    /\ incoming' = PassResult.incoming
    /\ cursor' = cursor + 1
    /\ emitted' = emitted
    /\ pc' = "pass"

PassNeither ==
    /\ PassCalled
    /\ PassResult.advance.tag = "Neither"
    /\ incoming' = PassResult.advance.op
    /\ cursor' = cursor
    /\ emitted' = Append(emitted, PassResult.incoming)
    /\ pc' = "pass"

PassIncoming ==
    /\ PassCalled
    /\ PassResult.advance.tag = "Incoming"
    /\ incoming' = PassResult.incoming
    /\ cursor' = cursor
    /\ emitted' = Append(emitted, PassResult.incoming)
    /\ pc' = "done"

PassExhausted ==
    /\ pc = "pass"
    /\ cursor > Len(history)
    /\ incoming' = transform_single(Self, incoming)
    /\ emitted' = Append(emitted, incoming')
    /\ pc' = "done"
    /\ UNCHANGED <<sequencer, incoming_offset, existing_offset, total_overlap,
                   existing, overlap, advance, pre, panicked, swapped, history,
                   cursor, original>>

NextPass ==
    \/ PassExisting
    \/ PassNeither
    \/ PassIncoming
    \/ PassExhausted

SpecPass == InitPass /\ [][NextPass]_vars

\* ---------------------------------------------- classifier claims (C2, C9, C10)
\* adjusted span of the incoming operation: [IncFront, IncBack)
IncFront == incoming.position - incoming_offset
IncBack == IncFront + incoming.length
\* adjusted span of the existing operation: [ExFront, ExBack)
ExFront == existing.position - existing_offset
ExBack == ExFront + existing.length

Inverse(r) ==
    CASE r.tag = "Precedes" -> Follows
      [] r.tag = "Follows" -> Precedes
      [] r.tag = "Encloses" -> EnclosedBy(r.k)
      [] r.tag = "EnclosedBy" -> Encloses(r.k)
      [] r.tag = "OverlapFront" -> OverlapBack(r.k)
      [] r.tag = "OverlapBack" -> OverlapFront(r.k)

BothDeletes == incoming.kind = "Delete" /\ existing.kind = "Delete"
BothInserts == incoming.kind = "Insert" /\ existing.kind = "Insert"
BothPositive == BothDeletes /\ incoming.length > 0 /\ existing.length > 0

\* the operand pairs on which the two classifications are not inverses
SelfInversePair ==
    \/ /\ BothInserts
       /\ IncFront = ExFront
       /\ incoming.site_id = existing.site_id
    \/ /\ BothDeletes
       /\ IncFront = ExFront
       /\ \/ incoming.length = existing.length
          \/ incoming.length = 0
          \/ existing.length = 0

\* C2 as stated: for all operation pairs (a, b) of any kinds and all offsets,
\* a.check_overlap(b, oa, ob) and b.check_overlap(a, ob, oa) are inverses under
\* Precedes<->Follows, Encloses(k)<->EnclosedBy(k), OverlapFront(k)<->OverlapBack(k).
C2_SymmetryAllPairs ==
    pc = "classified" => swapped = Inverse(overlap)

\* C2 amended: the two classifications are inverses (same k) for every pair
\* except two Inserts with equal adjusted positions and equal site ids, and two
\* Deletes with equal adjusted fronts whose lengths are equal or one of which is
\* zero; on exactly those pairs they are not inverses.
C2_SymmetryExceptTies ==
    pc = "classified" => (swapped = Inverse(overlap) <=> ~SelfInversePair)

C2_Witness ==
    /\ pc = "classified"
    /\ BothPositive
    /\ overlap = Encloses(1)
    /\ swapped = EnclosedBy(1)

\* C9: for an incoming Delete [a,b) and an existing Delete [c,d), both of positive
\* length, check_overlap returns Precedes iff b <= c; Follows iff a >= d;
\* Encloses(c-a) iff a < c and d < b; EnclosedBy(a-c) iff c < a and b < d;
\* OverlapFront(b-c) iff (a < c < b <= d) or (a = c and b < d);
\* OverlapBack(d-a) iff c <= a < d <= b; exactly one case applies.
C9_DeleteDeleteCases ==
    (pc = "classified" /\ BothPositive) =>
        LET a == IncFront
            b == IncBack
            c == ExFront
            d == ExBack
            cases == <<b <= c,
                       a >= d,
                       a < c /\ d < b,
                       c < a /\ b < d,
                       (a < c /\ c < b /\ b <= d) \/ (a = c /\ b < d),
                       c <= a /\ a < d /\ d <= b>>
        IN  /\ (overlap = Precedes) <=> cases[1]
            /\ (overlap = Follows) <=> cases[2]
            /\ (overlap = Encloses(c - a)) <=> cases[3]
            /\ (overlap = EnclosedBy(a - c)) <=> cases[4]
            /\ (overlap = OverlapFront(b - c)) <=> cases[5]
            /\ (overlap = OverlapBack(d - a)) <=> cases[6]
            /\ Cardinality({i \in 1..6 : cases[i]}) = 1

C9_Witness ==
    /\ pc = "classified"
    /\ BothPositive
    /\ IncFront < ExFront
    /\ IncBack = ExBack
    /\ overlap = OverlapFront(IncBack - ExFront)

\* C10 as stated: two Deletes of positive length with equal adjusted fronts always
\* classify as OverlapFront, whatever their lengths.
C10_TieAlwaysOverlapFront ==
    (pc = "classified" /\ BothPositive /\ IncFront = ExFront) =>
        overlap.tag = "OverlapFront"

\* C10 amended: two Deletes of positive length with equal adjusted fronts classify
\* as OverlapFront(incoming length) when the incoming one is shorter than the
\* existing one and as OverlapBack(existing length) when it is equal or longer;
\* never as EnclosedBy.
C10_TiePolicy ==
    (pc = "classified" /\ BothPositive /\ IncFront = ExFront) =>
        /\ incoming.length < existing.length => overlap = OverlapFront(incoming.length)
        /\ incoming.length >= existing.length => overlap = OverlapBack(existing.length)
        /\ overlap.tag # "EnclosedBy"

C10_Witness ==
    /\ pc = "classified"
    /\ BothPositive
    /\ IncFront = ExFront
    /\ incoming.length < existing.length
    /\ overlap.tag = "OverlapFront"

\* ------------------------------------------ transformer claims (C3 .. C8)
Transformed == pc = "called" /\ sequencer = "SequenceTransformer"
Swapped == pc = "called" /\ sequencer = "SequenceSwapper"

\* C3: every split made by transform_operations (on Encloses(k)) or by
\* swap_operations (on Crosses(k)) of an incoming Delete of length L has
\* 0 < k < L, leaves the head with length k and returns a tail of length L - k,
\* so the two lengths add up to L; the tail keeps the position and the
\* timestamp the Delete had before the call.
C3_SplitConservation ==
    (pc = "called" /\ overlap.tag \in {"Encloses", "Crosses"}
                   /\ pre.incoming.kind = "Delete") =>
        LET k == overlap.k
            L == pre.incoming.length
        IN  /\ 0 < k
            /\ k < L
            /\ advance.tag = "Neither"
            /\ incoming.length = k
            /\ advance.op.length = L - k
            /\ incoming.length + advance.op.length = L
            /\ advance.op.position = pre.incoming.position
            /\ advance.op.timestamp = pre.incoming.timestamp

C3_Witness ==
    /\ Swapped
    /\ overlap = Crosses(1)
    /\ pre.incoming.kind = "Delete"
    /\ pre.incoming.length = 3
    /\ pre.incoming.timestamp = 2
    /\ advance.tag = "Neither"
    /\ advance.op.length = 2

\* C4: in any sequence of transform_operations and swap_operations calls no call
\* reaches InsertOperation::split, InsertOperation::update_size_by or
\* InsertOperation::crossed_by; an incoming Insert is classified Precedes,
\* Follows or EnclosedBy by the transformer and Precedes or Follows by the swapper.
C4_InsertAtomic ==
    /\ panicked = "none"
    /\ (Transformed /\ pre.incoming.kind = "Insert") =>
           overlap.tag \in {"Precedes", "Follows", "EnclosedBy"}
    /\ (Swapped /\ pre.incoming.kind = "Insert") =>
           overlap.tag \in {"Precedes", "Follows"}

C4_Witness ==
    /\ Transformed
    /\ pre.incoming.kind = "Insert"
    /\ existing.kind = "Delete"
    /\ overlap.tag = "EnclosedBy"
    /\ incoming.value = pre.incoming.value
    /\ panicked = "none"

\* C5: on Encloses(k) transform_operations splits the incoming Delete at k, adds
\* the head's increment after the split (-k, not -L) to incoming_offset, shifts
\* the head's position by existing_offset + total_overlap, leaves
\* existing_offset and total_overlap unchanged, and returns Neither(tail) with
\* the tail unshifted.
C5_EnclosesRow ==
    (Transformed /\ overlap.tag = "Encloses") =>
        LET k == overlap.k
        IN  /\ pre.incoming.kind = "Delete"
            /\ incoming = [pre.incoming EXCEPT
                             !.length = k,
                             !.position = @ + pre.existing_offset + pre.total_overlap]
            /\ incoming_offset = pre.incoming_offset - k
            /\ existing_offset = pre.existing_offset
            /\ total_overlap = pre.total_overlap
            /\ advance = Neither([pre.incoming EXCEPT !.length = @ - k])

C5_Witness ==
    /\ Transformed
    /\ overlap = Encloses(1)
    /\ pre.incoming.length = 3
    /\ existing.kind = "Delete"
    /\ existing.length = 1
    /\ pre.existing_offset + pre.total_overlap # 0
    /\ incoming_offset = pre.incoming_offset - 1

\* C6: on OverlapBack(amount) transform_operations adds existing.increment to
\* existing_offset, adds amount to total_overlap, subtracts amount from
\* incoming_offset, shrinks the incoming Delete's length by amount, leaves its
\* position unchanged, and returns Existing.
C6_OverlapBackRow ==
    (Transformed /\ overlap.tag = "OverlapBack") =>
        LET amount == overlap.k
        IN  /\ pre.incoming.kind = "Delete"
            /\ existing_offset = pre.existing_offset + get_increment(existing)
            /\ total_overlap = pre.total_overlap + amount
            /\ incoming_offset = pre.incoming_offset - amount
            /\ incoming = [pre.incoming EXCEPT !.length = @ - amount]
            /\ incoming.position = pre.incoming.position
            /\ advance = Existing

C6_Witness ==
    /\ Transformed
    /\ overlap = OverlapBack(1)
    /\ pre.incoming.length = 3
    /\ incoming.length = 2
    /\ existing.length = 2

\* C7: on OverlapFront(amount) transform_operations adds the incoming Delete's
\* increment as it was before shrinking (-L) to incoming_offset, shrinks its
\* length by amount, shifts its position by existing_offset plus the value
\* total_overlap had before the call, then adds amount to total_overlap, leaves
\* existing_offset unchanged, and returns Incoming.
C7_OverlapFrontRow ==
    (Transformed /\ overlap.tag = "OverlapFront") =>
        LET amount == overlap.k
            L == pre.incoming.length
        IN  /\ pre.incoming.kind = "Delete"
            /\ incoming_offset = pre.incoming_offset - L
            /\ incoming = [pre.incoming EXCEPT
                             !.length = L - amount,
                             !.position = @ + pre.existing_offset + pre.total_overlap]
            /\ total_overlap = pre.total_overlap + amount
            /\ existing_offset = pre.existing_offset
            /\ advance = Incoming

C7_Witness ==
    /\ Transformed
    /\ overlap = OverlapFront(2)
    /\ pre.incoming.length = 3
    /\ incoming.length = 1
    /\ pre.total_overlap # 0
    /\ incoming.position # pre.incoming.position

\* C8: on EnclosedBy(k) transform_operations adds incoming.increment to
\* incoming_offset, shifts incoming's position by existing_offset +
\* total_overlap - k, subtracts incoming.increment (as it was before zeroing)
\* from total_overlap, sets a Delete's length to 0 and leaves an Insert's value
\* untouched, leaves existing_offset unchanged, and returns Incoming.
C8_EnclosedByRow ==
    (Transformed /\ overlap.tag = "EnclosedBy") =>
        LET k == overlap.k
            increment == IF pre.incoming.kind = "Insert"
                         THEN Len(pre.incoming.value)
                         ELSE -(pre.incoming.length)
            moved == [pre.incoming EXCEPT
                        !.position = @ + pre.existing_offset + pre.total_overlap - k]
        IN  /\ incoming_offset = pre.incoming_offset + increment
            /\ total_overlap = pre.total_overlap - increment
            /\ existing_offset = pre.existing_offset
            /\ pre.incoming.kind = "Delete" => incoming = [moved EXCEPT !.length = 0]
            /\ pre.incoming.kind = "Insert" => incoming = moved
            /\ advance = Incoming

C8_Witness ==
    /\ Transformed
    /\ overlap = EnclosedBy(1)
    /\ pre.incoming.kind = "Delete"
    /\ pre.incoming.length = 1
    /\ incoming.length = 0
    /\ total_overlap = pre.total_overlap + 1

\* ------------------------------------------------- end-to-end pass claim (C1)
Range(seq) == {seq[i] : i \in 1..Len(seq)}

\* the base bytes the incoming Delete was issued against
Targeted == {i \in 1..DocLen : original.position < i
                               /\ i <= original.position + original.length}

AfterHistory == ApplyAll(BaseDocument, history)

\* C1: for a base document, a history of existing Deletes in increasing position
\* order (each expressed in the document left by the preceding ones) and one
\* incoming Delete expressed against the base document, the fragments a full
\* pass with a fresh SequenceTransformer emits, applied in emission order to the
\* document after the history, remove exactly the base bytes the incoming
\* Delete targeted that the history had not removed, and no other byte.
C1_DeletePass ==
    pc = "done" =>
        /\ AllApplicable(AfterHistory, emitted)
        /\ ApplyAll(AfterHistory, emitted) =
               SelectSeq(AfterHistory, LAMBDA byte : byte \notin Targeted)

C1_Witness ==
    /\ pc = "done"
    /\ Len(history) = 2
    /\ Len(emitted) = 3
    /\ \A i \in 1..3 : emitted[i].length > 0
    /\ Range(AfterHistory) \cap Targeted # {}
    /\ ApplyAll(AfterHistory, emitted) =
           SelectSeq(AfterHistory, LAMBDA byte : byte \notin Targeted)

\* ------------------------------------------ classifier claims (C11, C12)
DeleteVsInsert == incoming.kind = "Delete" /\ existing.kind = "Insert"
InsertVsDelete == incoming.kind = "Insert" /\ existing.kind = "Delete"
Mixed == DeleteVsInsert \/ InsertVsDelete

\* the Insert's adjusted point and the Delete's adjusted span [MixedFront, MixedBack)
MixedPoint == IF incoming.kind = "Insert" THEN IncFront ELSE ExFront
MixedFront == IF incoming.kind = "Delete" THEN IncFront ELSE ExFront
MixedBack == IF incoming.kind = "Delete" THEN IncBack ELSE ExBack

\* C11 as stated: a Delete incoming against an Insert yields Follows if
\* point <= front, Encloses(point - front) if front < point < back and Precedes
\* if point >= back; an Insert incoming against a Delete yields Precedes,
\* EnclosedBy(point - front) and Follows on the same three regions.
C11_ThreeRegions ==
    (pc = "classified" /\ Mixed) =>
        /\ MixedPoint <= MixedFront =>
               overlap = (IF DeleteVsInsert THEN Follows ELSE Precedes)
        /\ (MixedFront < MixedPoint /\ MixedPoint < MixedBack) =>
               overlap = (IF DeleteVsInsert
                          THEN Encloses(MixedPoint - MixedFront)
                          ELSE EnclosedBy(MixedPoint - MixedFront))
        /\ MixedPoint >= MixedBack =>
               overlap = (IF DeleteVsInsert THEN Precedes ELSE Follows)

\* C11 amended: the three regions are tested in that order, so the last rule
\* applies only when point > front as well; an Insert whose adjusted point is the
\* front (and back) of a zero-length Delete falls under the first rule.
C11_OrderedRegions ==
    (pc = "classified" /\ Mixed) =>
        /\ MixedPoint <= MixedFront =>
               overlap = (IF DeleteVsInsert THEN Follows ELSE Precedes)
        /\ (MixedFront < MixedPoint /\ MixedPoint < MixedBack) =>
               overlap = (IF DeleteVsInsert
                          THEN Encloses(MixedPoint - MixedFront)
                          ELSE EnclosedBy(MixedPoint - MixedFront))
        /\ (MixedPoint >= MixedBack /\ MixedPoint > MixedFront) =>
               overlap = (IF DeleteVsInsert THEN Precedes ELSE Follows)

\* a Delete incoming against an Insert at the back of its positive span
C11_Witness ==
    /\ pc = "classified"
    /\ DeleteVsInsert
    /\ incoming.length > 0
    /\ MixedPoint = MixedBack
    /\ overlap = Precedes

\* C12: for two Inserts a (incoming) and b (existing) at equal adjusted positions
\* the one with the smaller site_id is classified Precedes and the other Follows,
\* in both call directions and for every timestamp and value; at unequal adjusted
\* positions the one at the smaller adjusted position is classified Precedes,
\* whatever the site_ids.
C12_InsertTieBreak ==
    (pc = "classified" /\ BothInserts) =>
        /\ (IncFront = ExFront /\ incoming.site_id < existing.site_id) =>
               (overlap = Precedes /\ swapped = Follows)
        /\ (IncFront = ExFront /\ existing.site_id < incoming.site_id) =>
               (overlap = Follows /\ swapped = Precedes)
        /\ IncFront < ExFront => (overlap = Precedes /\ swapped = Follows)
        /\ ExFront < IncFront => (overlap = Follows /\ swapped = Precedes)

\* a tie at equal adjusted but different raw positions, decided by site_id
C12_Witness ==
    /\ pc = "classified"
    /\ BothInserts
    /\ IncFront = ExFront
    /\ incoming.position # existing.position
    /\ incoming.site_id < existing.site_id
    /\ incoming.value # existing.value
    /\ overlap = Precedes
    /\ swapped = Follows

\* ------------------------------- transformer and swapper claims (C14 .. C20)
\* the signed size change of an operation: +len(value) for an Insert, -length
\* for a Delete
Increment(op) == IF op.kind = "Insert" THEN Len(op.value) ELSE 0 - op.length

\* C16: on Precedes transform_operations adds the incoming operation's increment
\* to incoming_offset, shifts the incoming position by existing_offset +
\* total_overlap, leaves the incoming length/value, existing_offset and
\* total_overlap unchanged, and returns Advance::Incoming.
C16_PrecedesRow ==
    (Transformed /\ overlap.tag = "Precedes") =>
        /\ incoming = [pre.incoming EXCEPT
                         !.position = @ + pre.existing_offset + pre.total_overlap]
        /\ incoming_offset = pre.incoming_offset + Increment(pre.incoming)
        /\ existing_offset = pre.existing_offset
        /\ total_overlap = pre.total_overlap
        /\ advance = Incoming

C16_Witness ==
    /\ Transformed
    /\ overlap = Precedes
    /\ pre.total_overlap # 0
    /\ pre.existing_offset # 0
    /\ pre.existing_offset + pre.total_overlap # 0
    /\ pre.incoming.kind = "Delete"
    /\ pre.incoming.length > 0
    /\ advance = Incoming

\* C17: on Follows transform_operations changes only existing_offset, adding
\* the existing operation's increment, and returns Advance::Existing: the
\* incoming operation, incoming_offset and total_overlap stay as they were; and
\* whatever the classification, the existing operation is left unmodified.
C17_FollowsRowAndFrame ==
    /\ (Transformed /\ overlap.tag = "Follows") =>
           /\ existing_offset = pre.existing_offset + Increment(pre.existing)
           /\ incoming = pre.incoming
           /\ incoming_offset = pre.incoming_offset
           /\ total_overlap = pre.total_overlap
           /\ advance = Existing
    /\ Transformed => existing = pre.existing

C17_Witness ==
    /\ Transformed
    /\ overlap = Follows
    /\ pre.incoming_offset # 0
    /\ pre.total_overlap # 0
    /\ pre.incoming.kind = "Delete"
    /\ pre.incoming.length > 0
    /\ existing.kind = "Delete"
    /\ existing.length > 0
    /\ existing_offset = pre.existing_offset - existing.length
    /\ advance = Existing

\* the offset that adjusts the incoming side: incoming_offset for the
\* transformer, incoming_offset + existing_offset for the swapper
IncomingAdjust(io, eo) ==
    IF sequencer = "SequenceSwapper" THEN io + eo ELSE io

\* C14: right after an Encloses(k) split in transform_operations, and after a
\* Crosses(k) split in swap_operations, the tail's adjusted front under the
\* updated offsets is the head's adjusted front before the split plus k, which
\* is the head's adjusted back; the tail's adjusted back is the adjusted back
\* the Delete had before the split.  Head and tail are contiguous, do not
\* overlap and cover the original adjusted span.
C14_SplitContiguity ==
    (pc = "called" /\ \/ (Transformed /\ overlap.tag = "Encloses")
                      \/ (Swapped /\ overlap.tag = "Crosses")) =>
        LET k == overlap.k
            front == pre.incoming.position
                       - IncomingAdjust(pre.incoming_offset, pre.existing_offset)
            back == front + pre.incoming.length
            headBack == front + incoming.length
            tailFront == advance.op.position
                           - IncomingAdjust(incoming_offset, existing_offset)
            tailBack == tailFront + advance.op.length
        IN  /\ advance.tag = "Neither"
            /\ tailFront = front + k
            /\ tailFront = headBack
            /\ front < headBack
            /\ tailFront < tailBack
            /\ tailBack = back

\* a swapper split with both offsets away from zero
C14_Witness ==
    /\ Swapped
    /\ overlap.tag = "Crosses"
    /\ pre.incoming_offset # 0
    /\ pre.existing_offset # 0
    /\ advance.tag = "Neither"
    /\ advance.op.position - (incoming_offset + existing_offset)
         = pre.incoming.position - (pre.incoming_offset + pre.existing_offset)
             + overlap.k

\* a transformer split with incoming_offset away from zero
C14_WitnessTransformer ==
    /\ Transformed
    /\ overlap.tag = "Encloses"
    /\ pre.incoming_offset # 0
    /\ advance.tag = "Neither"
    /\ advance.op.position - incoming_offset
         = pre.incoming.position - pre.incoming_offset + overlap.k

\* C20: on Crosses(k) swap_operations splits the incoming Delete at k, adds the
\* head's increment after the split (-k) to incoming_offset, shifts the head's
\* position by -existing_offset, leaves existing_offset and the existing Delete
\* unchanged, and returns Neither(tail) with the tail unshifted.
C20_CrossesRow ==
    (Swapped /\ overlap.tag = "Crosses") =>
        LET k == overlap.k
        IN  /\ pre.incoming.kind = "Delete"
            /\ incoming = [pre.incoming EXCEPT
                             !.length = k,
                             !.position = @ - pre.existing_offset]
            /\ incoming_offset = pre.incoming_offset - k
            /\ existing_offset = pre.existing_offset
            /\ existing = pre.existing
            /\ advance = Neither([pre.incoming EXCEPT !.length = @ - k])

C20_Witness ==
    /\ Swapped
    /\ overlap = Crosses(1)
    /\ pre.incoming.length = 3
    /\ pre.existing_offset # 0
    /\ incoming.length = 1
    /\ incoming.position = pre.incoming.position - pre.existing_offset
    /\ advance.tag = "Neither"
    /\ advance.op.length = 2
    /\ advance.op.position = pre.incoming.position

\* swap_operations calls incoming.crosses(existing, incoming_offset +
\* existing_offset, existing_offset): self is the incoming Delete and other the
\* existing one
CrossedDeletes ==
    Swapped /\ pre.incoming.kind = "Delete" /\ pre.existing.kind = "Delete"
SelfFront == pre.incoming.position - (pre.incoming_offset + pre.existing_offset)
SelfBack == SelfFront + pre.incoming.length
OtherFront == pre.existing.position - pre.existing_offset

\* the classification is the same whatever length the other Delete has
CrossIgnoresOtherLength ==
    \A l \in Lengths :
        crosses(pre.incoming, [pre.existing EXCEPT !.length = l],
                pre.incoming_offset + pre.existing_offset,
                pre.existing_offset) = overlap

\* C19 as stated: self.crosses(other, my_offset, other_offset) is Follows iff
\* other_front <= self_front, Crosses(other_front - self_front) iff
\* self_front < other_front < self_back, and Precedes iff other_front >=
\* self_back; the result does not depend on other's length.
C19_CrossesIff ==
    CrossedDeletes =>
        /\ overlap = Follows <=> OtherFront <= SelfFront
        /\ overlap = Crosses(OtherFront - SelfFront)
             <=> (SelfFront < OtherFront /\ OtherFront < SelfBack)
        /\ overlap = Precedes <=> OtherFront >= SelfBack
        /\ CrossIgnoresOtherLength

\* C19 amended: Precedes iff other_front >= self_back and other_front >
\* self_front; a zero-length self with other_front = self_front = self_back is
\* classified Follows.
C19_CrossesOrdered ==
    CrossedDeletes =>
        /\ overlap = Follows <=> OtherFront <= SelfFront
        /\ overlap = Crosses(OtherFront - SelfFront)
             <=> (SelfFront < OtherFront /\ OtherFront < SelfBack)
        /\ overlap = Precedes
             <=> (OtherFront >= SelfBack /\ OtherFront > SelfFront)
        /\ CrossIgnoresOtherLength

\* another Delete starting exactly at the back of a positive-length self
C19_Witness ==
    /\ CrossedDeletes
    /\ pre.incoming.length > 0
    /\ pre.incoming_offset # 0
    /\ pre.existing_offset # 0
    /\ OtherFront = SelfBack
    /\ overlap = Precedes

\* a call of transform_operations that shrinks the incoming Delete
Shrunk == Transformed /\ overlap.tag \in {"OverlapFront", "OverlapBack"}

\* no Delete of the state carries a length below zero (a wrapped u64)
LengthsNonNegative ==
    /\ incoming.kind = "Delete" => incoming.length >= 0
    /\ existing.kind = "Delete" => existing.length >= 0
    /\ advance.tag = "Neither" => advance.op.length >= 0

\* C15 as stated: every shrink amount of an OverlapFront or OverlapBack
\* classification is greater than 0 and at most the incoming Delete's current
\* length, so no length goes below 0.
C15_ShrinkPositive ==
    /\ Shrunk =>
           /\ overlap.k > 0
           /\ overlap.k <= pre.incoming.length
           /\ incoming.length = pre.incoming.length - overlap.k
    /\ LengthsNonNegative

\* C15 amended: every shrink amount is at least 0 and at most the incoming
\* Delete's current length, and it is 0 only for OverlapFront on a zero-length
\* incoming Delete whose adjusted front is the existing Delete's front; no
\* length goes below 0.
C15_ShrinkBounded ==
    /\ Shrunk =>
           /\ overlap.k >= 0
           /\ overlap.k <= pre.incoming.length
           /\ incoming.length = pre.incoming.length - overlap.k
           /\ overlap.k = 0 =>
                  /\ overlap.tag = "OverlapFront"
                  /\ pre.incoming.length = 0
                  /\ pre.incoming.position - pre.incoming_offset
                       = pre.existing.position - pre.existing_offset
    /\ LengthsNonNegative

\* an incoming Delete shrunk to nothing by a second overlap in the same sequence
C15_Witness ==
    /\ Shrunk
    /\ pre.total_overlap > 0
    /\ pre.incoming.length > 0
    /\ overlap.k = pre.incoming.length
    /\ incoming.length = 0

\* --------------------- one pass of any operation, transformer or swapper
\* The pass of one incoming operation over a finite history, for both
\* sequencers.  The base document is the byte sequence 1..RunDocLen; the
\* incoming operation is expressed against it.  A transformer history mixes
\* Inserts and Deletes, a swapper history holds Deletes only; positions are
\* non-decreasing and each operation lies inside the document its predecessors
\* leave.  The caller follows the Advance protocol: Existing moves to the next
\* existing operation, Neither(tail) goes on with the tail against the same
\* existing operation, Incoming ends the pass, and an exhausted history ends
\* it through transform_single / swap_single.  When a swapper pass ends with
\* existing Deletes left over, they go through swap_existing.
RunDocLen == 3
RunHistory == 2
RunTimes == {1}
HistorySites == {1}
HistoryValues == {<<7>>}

RunDocument == [i \in 1..RunDocLen |-> i]

ApplyInsert(doc, op) ==
    SubSeq(doc, 1, op.position) \o op.value \o SubSeq(doc, op.position + 1, Len(doc))

ApplyOperation(doc, op) ==
    IF op.kind = "Insert" THEN ApplyInsert(doc, op) ELSE ApplyDelete(doc, op)

RECURSIVE ApplyOperations(_, _)
ApplyOperations(doc, ops) ==
    IF ops = <<>>
    THEN doc
    ELSE ApplyOperations(ApplyOperation(doc, Head(ops)), Tail(ops))

\* the operations that fit a document: non-empty Deletes inside it, Inserts at
\* any of its gaps
DeletesOn(doc, times) ==
    {DeleteOperation(p, l, t) :
        <<p, l>> \in {x \in (0..Len(doc)) \X (1..Len(doc)) : x[1] + x[2] <= Len(doc)},
        t \in times}

InsertsOn(doc, values, times, sites) ==
    {InsertOperation(p, v, t, s) :
        p \in 0..Len(doc), v \in values, t \in times, s \in sites}

RunExisting(kinds, doc) ==
    IF kinds = "SequenceSwapper"
    THEN DeletesOn(doc, HistoryTimes)
    ELSE DeletesOn(doc, HistoryTimes) \cup InsertsOn(doc, HistoryValues, HistoryTimes, HistorySites)

\* the histories of exactly n operations for a sequencer
RECURSIVE RunHistoriesOf(_, _)
RunHistoriesOf(kinds, n) ==
    IF n = 0
    THEN {<<>>}
    ELSE UNION {
            {Append(h, op) :
                op \in {x \in RunExisting(kinds, ApplyOperations(RunDocument, h)) :
                          h # <<>> => h[Len(h)].position <= x.position}} :
            h \in RunHistoriesOf(kinds, n - 1)}

RunHistories(kinds) == UNION {RunHistoriesOf(kinds, n) : n \in 0..RunHistory}

\* the accumulators of a newly constructed sequencer
Fresh(kinds) ==
    IF kinds = "SequenceSwapper" THEN SequenceSwapper_new ELSE SequenceTransformer_new

InitRun ==
    /\ sequencer \in {"SequenceTransformer", "SequenceSwapper"}
    /\ incoming_offset = Fresh(sequencer).incoming_offset
    /\ existing_offset = Fresh(sequencer).existing_offset
    /\ total_overlap = Fresh(sequencer).total_overlap
    /\ history \in RunHistories(sequencer)
    /\ original \in DeletesOn(RunDocument, RunTimes)
                    \cup InsertsOn(RunDocument, Values, RunTimes, SiteIds)
    /\ incoming = original
    /\ existing = None
    /\ cursor = 1
    /\ emitted = <<>>
    /\ overlap = None
    /\ advance = None
    /\ pre = None
    /\ panicked = "none"
    /\ swapped = None
    /\ pc = "pass"

RunTransformExisting ==
    /\ sequencer = "SequenceTransformer"
    /\ PassExisting

RunTransformNeither ==
    /\ sequencer = "SequenceTransformer"
    /\ PassNeither

RunTransformIncoming ==
    /\ sequencer = "SequenceTransformer"
    /\ PassIncoming

RunTransformExhausted ==
    /\ sequencer = "SequenceTransformer"
    /\ PassExhausted

\* the call of swap_operations on the current pair
SwapPassResult == swap_operations(Self, incoming, history[cursor])

\* what every such call leaves behind; the existing Delete is passed by
\* mutable reference, so the history holds what the call made of it
SwapPassCalled ==
    /\ sequencer = "SequenceSwapper"
    /\ pc = "pass"
    /\ cursor <= Len(history)
    /\ SwapPassResult.panicked = "none"
    /\ overlap' = swap_cross(Self, incoming, history[cursor])
    /\ incoming_offset' = SwapPassResult.self.incoming_offset
    /\ existing_offset' = SwapPassResult.self.existing_offset
    /\ total_overlap' = SwapPassResult.self.total_overlap
    /\ advance' = SwapPassResult.advance
    /\ existing' = SwapPassResult.existing
    /\ history' = [history EXCEPT ![cursor] = SwapPassResult.existing]
    /\ pre' = [Snapshot EXCEPT !.existing = history[cursor]]
    /\ UNCHANGED <<sequencer, panicked, swapped, original>>

RunSwapExisting ==
    /\ SwapPassCalled
    /\ SwapPassResult.advance.tag = "Existing"
    /\ incoming' = SwapPassResult.incoming
    /\ cursor' = cursor + 1
    /\ emitted' = emitted
    /\ pc' = "pass"

RunSwapNeither ==
    /\ SwapPassCalled
    /\ SwapPassResult.advance.tag = "Neither"
    /\ incoming' = SwapPassResult.advance.op
    /\ cursor' = cursor
    /\ emitted' = Append(emitted, SwapPassResult.incoming)
    /\ pc' = "pass"

RunSwapIncoming ==
    /\ SwapPassCalled
    /\ SwapPassResult.advance.tag = "Incoming"
    /\ incoming' = SwapPassResult.incoming
    /\ cursor' = cursor
    /\ emitted' = Append(emitted, SwapPassResult.incoming)
    /\ pc' = "done"

RunSwapExhausted ==
    /\ sequencer = "SequenceSwapper"
    /\ pc = "pass"
    /\ cursor > Len(history)
    /\ incoming' = swap_single(Self, incoming)
    /\ emitted' = Append(emitted, incoming')
    /\ pc' = "done"
    /\ UNCHANGED <<sequencer, incoming_offset, existing_offset, total_overlap,
                   existing, overlap, advance, pre, panicked, swapped, history,
                   cursor, original>>

\* the incoming side is finished and existing Deletes remain: each of them is
\* repositioned by swap_existing
RunSwapRemaining ==
    /\ sequencer = "SequenceSwapper"
    /\ pc = "done"
    /\ cursor <= Len(history)
    /\ history' = [history EXCEPT ![cursor] = swap_existing(Self, history[cursor])]
    /\ existing' = swap_existing(Self, history[cursor])
    /\ pre' = [Snapshot EXCEPT !.existing = history[cursor]]
    /\ cursor' = cursor + 1
    /\ overlap' = None
    /\ advance' = None
    /\ UNCHANGED <<sequencer, incoming_offset, existing_offset, total_overlap,
                   incoming, panicked, swapped, emitted, original, pc>>

NextRun ==
    \/ RunTransformExisting
    \/ RunTransformNeither
    \/ RunTransformIncoming
    \/ RunTransformExhausted
    \/ RunSwapExisting
    \/ RunSwapNeither
    \/ RunSwapIncoming
    \/ RunSwapExhausted
    \/ RunSwapRemaining

\* the caller is one synchronous loop: it always makes its next call
SpecRun == InitRun /\ [][NextRun]_vars /\ WF_vars(NextRun)

\* ------------------------------------------------- pass claims (C13, C18)
\* C13: every pass of one incoming operation over a finite history, driven by
\* the Advance results, completes; and the call that re-runs a tail returned by
\* Neither against the same existing operation, with the accumulators the split
\* left, returns Advance::Existing, for the transformer and for the swapper, so
\* Neither occurs at most once per existing operation.
C13_PassTerminates ==
    /\ <>(pc = "done")
    /\ [][advance.tag = "Neither" =>
            /\ cursor' = cursor + 1
            /\ advance'.tag = "Existing"
            /\ pre'.incoming = advance.op
            /\ pre'.existing = existing]_vars

\* a transformer pass in which the first existing operation, an Insert, split
\* the incoming Delete and the re-run of the tail moved on to the second
C13_Witness ==
    /\ sequencer = "SequenceTransformer"
    /\ pc = "pass"
    /\ cursor = 2
    /\ Len(emitted) = 1
    /\ overlap.tag = "Follows"
    /\ advance.tag = "Existing"
    /\ existing.kind = "Insert"
    /\ existing = history[1]
    /\ pre.incoming.length = original.length - emitted[1].length

\* the same for a swapper pass over Deletes
C13_WitnessSwapper ==
    /\ sequencer = "SequenceSwapper"
    /\ pc = "pass"
    /\ cursor = 2
    /\ Len(emitted) = 1
    /\ advance.tag = "Existing"
    /\ pre.incoming.length = original.length - emitted[1].length

\* a finished transformer pass of an Insert over a history of Deletes
InsertPassDone ==
    /\ pc = "done"
    /\ sequencer = "SequenceTransformer"
    /\ original.kind = "Insert"
    /\ \A i \in 1..Len(history) : history[i].kind = "Delete"

\* the base bytes in front of the Insert's base position that the history left
SurvivorsBefore ==
    {byte \in Range(ApplyOperations(RunDocument, history)) :
        byte <= original.position}

\* C18: for an incoming Insert at base position p and a history of existing
\* Deletes in increasing position order, each expressed in the document its
\* predecessors leave, a full pass with a fresh SequenceTransformer leaves the
\* Insert at the number of base bytes before p that the history did not delete
\* (an Insert strictly inside a deleted range lands at that range's front), with
\* its value unchanged.
C18_InsertPass ==
    InsertPassDone =>
        /\ incoming.position = Cardinality(SurvivorsBefore)
        /\ incoming.value = original.value
        /\ incoming = [original EXCEPT !.position = Cardinality(SurvivorsBefore)]
        /\ emitted = <<incoming>>

\* an Insert strictly inside the second of two deleted ranges
C18_Witness ==
    /\ InsertPassDone
    /\ Len(history) = 2
    /\ cursor = 2
    /\ overlap.tag = "EnclosedBy"
    /\ Len(original.value) = 2
    /\ incoming.position = history[2].position
    /\ incoming.position + 1 < original.position
    /\ incoming.position = Cardinality(SurvivorsBefore)

\* ------------------------------------------ swapper row claims (C21, C22)
\* C21: on Follows swap_operations adds the existing Delete's increment to
\* existing_offset, shifts the existing Delete's position by the incoming_offset
\* of the time of the call, leaves the existing Delete's length, the incoming
\* operation and incoming_offset unchanged, and returns Advance::Existing.
C21_SwapFollowsRow ==
    (Swapped /\ overlap.tag = "Follows") =>
        /\ existing_offset = pre.existing_offset + Increment(pre.existing)
        /\ existing = [pre.existing EXCEPT !.position = @ + pre.incoming_offset]
        /\ existing.length = pre.existing.length
        /\ incoming = pre.incoming
        /\ incoming_offset = pre.incoming_offset
        /\ advance = Existing

C21_Witness ==
    /\ Swapped
    /\ overlap = Follows
    /\ pre.incoming_offset # 0
    /\ pre.existing_offset # 0
    /\ pre.incoming_offset # pre.existing_offset - pre.existing.length
    /\ pre.existing.length > 0
    /\ existing.position = pre.existing.position + pre.incoming_offset
    /\ advance = Existing

\* C22: on Precedes swap_operations adds the incoming operation's increment to
\* incoming_offset, shifts the incoming position by -existing_offset, leaves
\* existing_offset, the existing Delete and the incoming length/value
\* unchanged, and returns Advance::Incoming.
C22_SwapPrecedesRow ==
    (Swapped /\ overlap.tag = "Precedes") =>
        /\ incoming_offset = pre.incoming_offset + Increment(pre.incoming)
        /\ incoming = [pre.incoming EXCEPT !.position = @ - pre.existing_offset]
        /\ existing_offset = pre.existing_offset
        /\ existing = pre.existing
        /\ advance = Incoming

C22_Witness ==
    /\ Swapped
    /\ overlap = Precedes
    /\ pre.existing_offset # 0
    /\ pre.incoming.kind = "Insert"
    /\ Len(pre.incoming.value) = 2
    /\ incoming_offset = pre.incoming_offset + 2
    /\ incoming.position = pre.incoming.position - pre.existing_offset
    /\ advance = Incoming

\* ------------------------- call sequences with single-operand repositioning
\* The call sequences of Spec on a SequenceTransformer, in which the caller may
\* also hand any operation to transform_single between two calls, as often as
\* it likes.
TransformSingle ==
    /\ sequencer = "SequenceTransformer"
    /\ pc = "ready"
    /\ incoming' = transform_single(Self, incoming)
    /\ pre' = Snapshot
    /\ pc' = "single"
    /\ UNCHANGED <<sequencer, incoming_offset, existing_offset, total_overlap,
                   existing, overlap, advance, panicked, swapped, passVars>>

\* the caller takes the repositioned operation and brings the next one
AfterSingle ==
    /\ pc = "single"
    /\ incoming' \in Operations
    /\ pre' = None
    /\ pc' = "ready"
    /\ UNCHANGED <<sequencer, incoming_offset, existing_offset, total_overlap,
                   existing, overlap, advance, panicked, swapped, passVars>>

InitSingle ==
    /\ sequencer = "SequenceTransformer"
    /\ Init

NextSingle ==
    \/ TransformOperations
    \/ NextIncoming
    \/ NextExisting
    \/ ResubmitTail
    \/ TransformSingle
    \/ AfterSingle

SpecSingle == InitSingle /\ [][NextSingle]_vars

\* C24: transform_single shifts the operation's position by existing_offset +
\* total_overlap as they are at the call, classifies nothing, leaves the
\* operation's length/value and the three accumulators unchanged; calls on
\* different operations with no transform_operations in between use one shift.
C24_TransformSingle ==
    pc = "single" =>
        /\ incoming = [pre.incoming EXCEPT
                         !.position = @ + pre.existing_offset + pre.total_overlap]
        /\ incoming_offset = pre.incoming_offset
        /\ existing_offset = pre.existing_offset
        /\ total_overlap = pre.total_overlap
        /\ overlap = None
        /\ advance = None
        /\ existing = pre.existing
        /\ panicked = "none"

C24_Witness ==
    /\ pc = "single"
    /\ pre.existing_offset # 0
    /\ pre.total_overlap # 0
    /\ pre.existing_offset + pre.total_overlap # 0
    /\ pre.incoming_offset # 0
    /\ pre.incoming.kind = "Insert"
    /\ incoming.position = pre.incoming.position + existing_offset + total_overlap
    /\ incoming.value = pre.incoming.value

\* -------------------------------------------- swapper frame claim (C23)
RECURSIVE TotalLength(_)
TotalLength(ops) ==
    IF ops = <<>> THEN 0 ELSE Head(ops).length + TotalLength(Tail(ops))

\* the lengths of all fragments derived so far from the incoming Delete: the
\* ones handed back and the one still being passed along
FragmentLengths ==
    TotalLength(emitted) + (IF pc = "pass" THEN incoming.length ELSE 0)

\* C23: over the swap_operations, swap_single and swap_existing calls of a
\* swapper pass, no existing Delete ever changes its length, an Insert keeps
\* its value, and the lengths of all fragments derived from an incoming Delete
\* (the heads and the tails returned by Neither) add up to its original length.
C23_SwapperOnlyRelocates ==
    /\ [](sequencer = "SequenceSwapper" =>
            /\ original.kind = "Delete" => FragmentLengths = original.length
            /\ original.kind = "Insert" =>
                   /\ incoming.kind = "Insert"
                   /\ incoming.value = original.value
                   /\ \A i \in 1..Len(emitted) : emitted[i].value = original.value)
    /\ [][sequencer = "SequenceSwapper" =>
            /\ Len(history') = Len(history)
            /\ \A i \in 1..Len(history) :
                   /\ history'[i].kind = "Delete"
                   /\ history'[i].length = history[i].length]_vars

\* a pass that split the incoming Delete, moved the existing Delete on the
\* re-run of the tail and ended through swap_single
C23_Witness ==
    /\ sequencer = "SequenceSwapper"
    /\ pc = "done"
    /\ original.kind = "Delete"
    /\ Len(emitted) = 2
    /\ emitted[1].length > 0
    /\ emitted[2].length > 0
    /\ cursor > Len(history)
    /\ existing.position # pre.existing.position
    /\ existing.length = pre.existing.length
    /\ TotalLength(emitted) = original.length

\* a pass that ended on Precedes, after swap_existing moved the Delete left over
C23_WitnessRemaining ==
    /\ sequencer = "SequenceSwapper"
    /\ pc = "done"
    /\ advance = None
    /\ pre # None
    /\ incoming_offset # 0
    /\ existing.position = pre.existing.position + incoming_offset
    /\ existing.length = pre.existing.length

\* ------------------------------------------------ accumulator claim (C27)
\* the fragments for which a transform_operations call returned
\* Advance::Incoming or Advance::Neither; a pass that ran out of history emits
\* one more, through transform_single
ReturnedFragments ==
    IF pc = "done" /\ advance.tag # "Incoming"
    THEN SubSeq(emitted, 1, Len(emitted) - 1)
    ELSE emitted

DeleteTransformerPass ==
    /\ sequencer = "SequenceTransformer"
    /\ pc \in {"pass", "done"}
    /\ original.kind = "Delete"

\* C27: through the transform_operations calls of a fresh SequenceTransformer
\* on an incoming Delete and its tails (existing operations of any kind),
\* incoming_offset + total_overlap is minus the sum of the final lengths of the
\* Deletes and heads handed back with Advance::Incoming or Advance::Neither;
\* a call classified OverlapBack or EnclosedBy leaves the sum as it was.
C27_AccumulatorSum ==
    DeleteTransformerPass =>
        /\ incoming_offset + total_overlap = 0 - TotalLength(ReturnedFragments)
        /\ (pre # None /\ overlap.tag \in {"OverlapBack", "EnclosedBy"}) =>
               incoming_offset + total_overlap
                   = pre.incoming_offset + pre.total_overlap

\* per call, for any accumulators and operands of the call sequences of Spec:
\* the sum drops by the final length of what the call hands back
C27_AccumulatorStep ==
    (Transformed /\ pre.incoming.kind = "Delete" /\ panicked = "none") =>
        (incoming_offset + total_overlap) - (pre.incoming_offset + pre.total_overlap)
            = (IF advance.tag \in {"Incoming", "Neither"}
               THEN 0 - incoming.length
               ELSE 0)

\* two heads handed back by Neither, after an OverlapBack took part of the
\* Delete away
C27_Witness ==
    /\ DeleteTransformerPass
    /\ Len(ReturnedFragments) = 2
    /\ total_overlap > 0
    /\ incoming_offset + total_overlap < 0
    /\ incoming_offset + total_overlap = 0 - TotalLength(ReturnedFragments)

\* ------------------------------------------- operations.rs: the wire codec
\* Big-endian fixed-width fields (byteorder::NetworkEndian).  The model keeps
\* field values below 2^31, so the high bytes of a u64 are zero bytes that are
\* still written and read.
RECURSIVE BigEndian(_, _)
BigEndian(x, width) ==
    IF width = 0 THEN <<>> ELSE Append(BigEndian(x \div 256, width - 1), x % 256)

write_u32(x) == BigEndian(x, 4)
write_u64(x) == BigEndian(x, 8)

RECURSIVE read_big_endian(_)
read_big_endian(bytes) ==
    IF bytes = <<>>
    THEN 0
    ELSE read_big_endian(SubSeq(bytes, 1, Len(bytes) - 1)) * 256 + bytes[Len(bytes)]

\* A writer is a Vec<u8>, which takes every byte, or a byte slice `&mut [u8]`
\* with `room` bytes left, which takes what fits.  Write::write returns Ok(n)
\* with n the number of bytes taken; compress_to drops n.
Vec_new == [kind |-> "Vec", bytes |-> <<>>, room |-> 0]
Slice_new(room) == [kind |-> "slice", bytes |-> <<>>, room |-> room]

Writer_write(writer, buf) ==
    IF writer.kind = "Vec"
    THEN [writer EXCEPT !.bytes = @ \o buf]
    ELSE LET n == IF Len(buf) <= writer.room THEN Len(buf) ELSE writer.room
         IN  [writer EXCEPT !.bytes = @ \o SubSeq(buf, 1, n), !.room = @ - n]

Insert_compress_to(self, writer, include_site_id) ==
    LET w1 == Writer_write(writer, write_u32(self.timestamp))
        w2 == Writer_write(w1, write_u64(self.position))
        w3 == Writer_write(w2, write_u32(Len(self.value)))
        w4 == Writer_write(w3, self.value)
    IN  IF include_site_id THEN Writer_write(w4, write_u32(self.site_id)) ELSE w4

Delete_compress_to(self, writer) ==
    LET w1 == Writer_write(writer, write_u32(self.timestamp))
        w2 == Writer_write(w1, write_u64(self.position))
    IN  Writer_write(w2, write_u64(self.length))

\* the io::Result of expand_from, with the number of bytes the reader gave up
Expanded(op, consumed) ==
    [operation |-> op, error |-> "none", consumed |-> consumed]
UnexpectedEof(consumed) ==
    [operation |-> None, error |-> "UnexpectedEof", consumed |-> consumed]
InvalidData(timestamp, consumed) ==
    [operation |-> None,
     error |-> "InvalidData: Timestamp " \o ToString(timestamp)
                 \o " not found in timestamp lookup",
     consumed |-> consumed]

Field(stream, from, width) == read_big_endian(SubSeq(stream, from + 1, from + width))

\* timestamp_lookup is None or Some(table), table a map timestamp -> (site_id, _)
Some(table) == [tag |-> "Some", table |-> table]

\* A faulty expand_from: on a lookup miss it reads the site_id from the stream
\* instead of failing.
Insert_expand_from_MissReadsStream(stream, timestamp_lookup) ==
    IF Len(stream) < 4 THEN UnexpectedEof(0)
    ELSE IF Len(stream) < 12 THEN UnexpectedEof(4)
    ELSE IF Len(stream) < 16 THEN UnexpectedEof(12)
    ELSE LET timestamp == Field(stream, 0, 4)
             position == Field(stream, 4, 8)
             value_len == Field(stream, 12, 4)
             end == 16 + value_len
         IN  IF Len(stream) < end THEN UnexpectedEof(16)
             ELSE LET value == SubSeq(stream, 17, end)
                  IN  IF /\ timestamp_lookup.tag = "Some"
                         /\ timestamp \in DOMAIN timestamp_lookup.table
                      THEN Expanded(InsertOperation(position, value, timestamp,
                                        timestamp_lookup.table[timestamp][1]),
                                    end)
                      ELSE IF Len(stream) < end + 4 THEN UnexpectedEof(end)
                           ELSE Expanded(InsertOperation(position, value, timestamp,
                                             Field(stream, end, 4)),
                                         end + 4)

\* InsertOperation::expand_from: read_exact each field, then the site_id from
\* the table when one is given (a miss is an error) or else from the stream
Insert_expand_from(stream, timestamp_lookup) ==
    IF Len(stream) < 4 THEN UnexpectedEof(0)
    ELSE IF Len(stream) < 12 THEN UnexpectedEof(4)
    ELSE IF Len(stream) < 16 THEN UnexpectedEof(12)
    ELSE LET timestamp == Field(stream, 0, 4)
             position == Field(stream, 4, 8)
             value_len == Field(stream, 12, 4)
             end == 16 + value_len
         IN  IF Len(stream) < end THEN UnexpectedEof(16)
             ELSE LET value == SubSeq(stream, 17, end)
                  IN  IF timestamp_lookup.tag = "Some"
                      THEN IF timestamp \in DOMAIN timestamp_lookup.table
                           THEN Expanded(InsertOperation(position, value, timestamp,
                                             timestamp_lookup.table[timestamp][1]),
                                         end)
                           ELSE InvalidData(timestamp, end)
                      ELSE IF Len(stream) < end + 4 THEN UnexpectedEof(end)
                           ELSE Expanded(InsertOperation(position, value, timestamp,
                                             Field(stream, end, 4)),
                                         end + 4)

Delete_expand_from(stream) ==
    IF Len(stream) < 4 THEN UnexpectedEof(0)
    ELSE IF Len(stream) < 12 THEN UnexpectedEof(4)
    ELSE IF Len(stream) < 20 THEN UnexpectedEof(12)
    ELSE Expanded(DeleteOperation(Field(stream, 4, 8), Field(stream, 12, 8),
                                  Field(stream, 0, 4)),
                  20)

\* ------------------------------------------------------- codec runs
\* One compress_to followed by one expand_from on the bytes the writer holds.
\* In these runs `original` is the operation written, `pre` holds the
\* arguments of the two calls (the writer, include_site_id, timestamp_lookup),
\* `emitted` is the byte stream the writer ends up with, `cursor` the number of
\* bytes the reader gave up, `incoming` the operation expand_from returned (None
\* on Err) and `panicked` the io::Error it returned ("none" on Ok).
WireRoom == 3

WirePositions == Positions \cup {258}
WireLengths == Lengths \cup {65536}

WireInserts ==
    {InsertOperation(p, v, t, s) :
        p \in WirePositions, v \in Values, t \in Timestamps, s \in SiteIds}
WireDeletes ==
    {DeleteOperation(p, l, t) : p \in WirePositions, l \in WireLengths, t \in Timestamps}

\* the lookup tables over the timestamps in use, entries (site_id, 0)
Lookups ==
    {None} \cup {Some(table) :
                    table \in UNION {[S -> SiteIds \X {0}] : S \in SUBSET Timestamps}}

\* a Vec, slices that cannot hold even one field, and a slice of 19 bytes
Writers == {Vec_new} \cup {Slice_new(room) : room \in (0..WireRoom) \cup {19}}

InitWire ==
    /\ sequencer = "None"
    /\ incoming_offset = 0
    /\ existing_offset = 0
    /\ total_overlap = 0
    /\ original \in WireInserts \cup WireDeletes
    /\ pre \in {[writer |-> w, include_site_id |-> i, timestamp_lookup |-> l] :
                  w \in Writers,
                  i \in (IF original.kind = "Insert" THEN BOOLEAN ELSE {FALSE}),
                  l \in (IF original.kind = "Insert" THEN Lookups ELSE {None})}
    /\ incoming = None
    /\ existing = None
    /\ overlap = None
    /\ advance = None
    /\ swapped = None
    /\ panicked = "none"
    /\ history = <<>>
    /\ cursor = 0
    /\ emitted = <<>>
    /\ pc = "compress"

CompressTo ==
    /\ pc = "compress"
    /\ emitted' = (IF original.kind = "Insert"
                   THEN Insert_compress_to(original, pre.writer, pre.include_site_id)
                   ELSE Delete_compress_to(original, pre.writer)).bytes
    /\ pc' = "compressed"
    /\ UNCHANGED <<sequencer, incoming_offset, existing_offset, total_overlap,
                   incoming, existing, overlap, advance, pre, panicked, swapped,
                   history, cursor, original>>

\* the result of expand_from on the bytes written
ExpandResult ==
    IF original.kind = "Insert"
    THEN Insert_expand_from(emitted, pre.timestamp_lookup)
    ELSE Delete_expand_from(emitted)

ExpandFrom ==
    /\ pc = "compressed"
    /\ incoming' = ExpandResult.operation
    /\ panicked' = ExpandResult.error
    /\ cursor' = ExpandResult.consumed
    /\ pc' = "expanded"
    /\ UNCHANGED <<sequencer, incoming_offset, existing_offset, total_overlap,
                   existing, overlap, advance, pre, swapped, history, emitted,
                   original>>

NextWire ==
    \/ CompressTo
    \/ ExpandFrom

SpecWire == InitWire /\ [][NextWire]_vars

\* --------------------------------------------------------------- C25, C26
\* the number of bytes the wire format takes for the operation written
EncodedLen ==
    IF original.kind = "Insert"
    THEN 16 + Len(original.value) + (IF pre.include_site_id THEN 4 ELSE 0)
    ELSE 20

\* the three pairings of writer and reader arguments the round trip is about
RoundTripCase ==
    \/ original.kind = "Delete"
    \/ /\ original.kind = "Insert"
       /\ pre.include_site_id
       /\ pre.timestamp_lookup = None
    \/ /\ original.kind = "Insert"
       /\ ~pre.include_site_id
       /\ pre.timestamp_lookup.tag = "Some"
       /\ original.timestamp \in DOMAIN pre.timestamp_lookup.table
       /\ pre.timestamp_lookup.table[original.timestamp][1] = original.site_id

\* expand_from returned the operation written and read every byte written
RoundTrip ==
    /\ panicked = "none"
    /\ incoming = original
    /\ cursor = Len(emitted)

\* C25: for any Delete, any Insert written with include_site_id and decoded
\* without a lookup table, and any Insert written without site_id and decoded
\* with a table mapping its timestamp to its site_id, expand_from on the bytes
\* compress_to produced returns an equal operation and consumes exactly the
\* bytes written.
C25_WireRoundTrip ==
    (pc = "expanded" /\ RoundTripCase) => RoundTrip

\* C25, the part that stands: when every Write::write call took its whole
\* buffer the round trip holds, and then the bytes are the whole encoding.
C25_RoundTripWhenAllWritten ==
    (pc = "expanded" /\ RoundTripCase /\ Len(emitted) = EncodedLen) => RoundTrip

\* C25: compress_to returns Ok(()) although the writer took fewer bytes than
\* the encoding has, and expand_from on those bytes fails.
C25_ShortWrite ==
    /\ pc = "expanded"
    /\ RoundTripCase
    /\ pre.writer.kind = "slice"
    /\ Len(emitted) < EncodedLen
    /\ panicked = "UnexpectedEof"
    /\ incoming = None

\* the stream holds timestamp, position, value length and the whole value
ValueRead ==
    /\ Len(emitted) >= 16
    /\ Len(emitted) >= 16 + Field(emitted, 12, 4)

\* expand_from was called with a table that lacks the timestamp in the stream
LookupMiss ==
    /\ pc = "expanded"
    /\ original.kind = "Insert"
    /\ pre.timestamp_lookup.tag = "Some"
    /\ ValueRead
    /\ Field(emitted, 0, 4) \notin DOMAIN pre.timestamp_lookup.table

\* C26: expand_from with a lookup table that has no entry for the timestamp it
\* decoded returns the InvalidData error that names this timestamp and no
\* operation, and it stops reading after the value: the site_id bytes a stream
\* written with include_site_id carries are left unread.
C26_LookupMiss ==
    LookupMiss =>
        /\ panicked = "InvalidData: Timestamp " \o ToString(original.timestamp)
                          \o " not found in timestamp lookup"
        /\ incoming = None
        /\ cursor = 16 + Len(original.value)

\* a miss on a stream that does carry a site_id after the value
C26_Witness ==
    /\ LookupMiss
    /\ pre.include_site_id
    /\ Len(emitted) = 20 + Len(original.value)
    /\ cursor < Len(emitted)
    /\ panicked # "none"

====
